---- MODULE Spec2Model ----
(***************************************************************************)
(* A model of clean_json.py: a script that loads amazon_results.json,      *)
(* splits its records by the presence of an 'error' key, prints a report,  *)
(* writes the records without the key to amazon_results_cleaned.json and,  *)
(* when amazon_results_new_backup.json does not exist yet, writes the      *)
(* loaded value there.                                                     *)
(*                                                                         *)
(* Python strings are sequences of one-character strings.  A JSON value    *)
(* is a record [t, s, n, items]: t is its type, s the characters of a      *)
(* string, n a number, and items the [k, val] items of a dict in insertion *)
(* order, or the elements of a list as items without a key.  A file is a   *)
(* record [exists, text] and its text is a sequence of JSON tokens.        *)
(***************************************************************************)
EXTENDS Integers, Sequences, FiniteSets, TLC

VARIABLES
    in_file,        \* the file named input_file (written by the operator)
    out_file,       \* the file named output_file
    bak_file,       \* the file named backup_file
    pc,             \* the statement the script is at
    exc,            \* the exception that ended the run, or NoExc
    records,        \* the script's variable records
    valid_records,  \* the script's variable valid_records
    error_records,  \* the script's variable error_records
    console,        \* what the run has printed, one entry per print call
    out_before,     \* history: out_file when the run started
    bak_before,     \* history: bak_file when the run started
    last_run,       \* history: the input and the outcome of the run before
    runs            \* history: the number of runs started

vars == <<in_file, out_file, bak_file, pc, exc, records, valid_records,
          error_records, console, out_before, bak_before, last_run, runs>>

----------------------------------------------------------------------------
(* Bounds of the model. *)

\* The longest array the input file holds.
MaxLen == 2

\* The number of runs of the script in one behaviour.
MaxRuns == 3

----------------------------------------------------------------------------
(* Constants of the script. *)

\* error[:80]
SliceEnd == 80

\* json.dump(..., indent=4)
Indent == 4

\* The three file names.
input_file ==
    <<"a", "m", "a", "z", "o", "n", "_", "r", "e", "s", "u", "l", "t", "s", ".", "j", "s",
       "o", "n">>

output_file ==
    <<"a", "m", "a", "z", "o", "n", "_", "r", "e", "s", "u", "l", "t", "s", "_", "c", "l",
       "e", "a", "n", "e", "d", ".", "j", "s", "o", "n">>

backup_file ==
    <<"a", "m", "a", "z", "o", "n", "_", "r", "e", "s", "u", "l", "t", "s", "_", "n", "e",
       "w", "_", "b", "a", "c", "k", "u", "p", ".", "j", "s", "o", "n">>

\* The keys the script and its input use.
KeyAsin ==
    <<"a", "s", "i", "n">>

KeyError ==
    <<"e", "r", "r", "o", "r">>

KeyTitle ==
    <<"t", "i", "t", "l", "e">>

\* The defaults of record.get.
Unknown ==
    <<"U", "n", "k", "n", "o", "w", "n">>

UnknownError ==
    <<"U", "n", "k", "n", "o", "w", "n", " ", "e", "r", "r", "o", "r">>

\* The texts of the print calls.
MsgLoading ==
    <<" ", "L", "o", "a", "d", "i", "n", "g", " ">>

Ellipsis ==
    <<".", ".", ".">>

MsgTotal ==
    <<"T", "o", "t", "a", "l", " ", "r", "e", "c", "o", "r", "d", "s", " ", "b", "e", "f",
       "o", "r", "e", " ", "c", "l", "e", "a", "n", "i", "n", "g", ":", " ">>

MsgStatistics ==
    <<"\n", " ", "S", "t", "a", "t", "i", "s", "t", "i", "c", "s", ":">>

MsgValid ==
    <<" ", "V", "a", "l", "i", "d", " ", "r", "e", "c", "o", "r", "d", "s", ":", " ">>

MsgErrors ==
    <<" ", "R", "e", "c", "o", "r", "d", "s", " ", "w", "i", "t", "h", " ", "e", "r", "r",
       "o", "r", "s", ":", " ">>

MsgAsins ==
    <<"\n", "A", "S", "I", "N", "s", " ", "w", "i", "t", "h", " ", "e", "r", "r", "o", "r",
       "s", ":">>

Bullet ==
    <<" ", " ", " ", "U+00E2", "U+20AC", "U+00A2", " ">>

ColonSpace ==
    <<":", " ">>

MsgSaving ==
    <<"\n", "S", "a", "v", "i", "n", "g", " ", "c", "l", "e", "a", "n", "e", "d", " ", "d",
       "a", "t", "a", " ", "t", "o", " ">>

MsgSaved ==
    <<"C", "l", "e", "a", "n", "e", "d", " ", "f", "i", "l", "e", " ", "s", "a", "v", "e",
       "d", "!">>

MsgCleanedTotal ==
    <<"T", "o", "t", "a", "l", " ", "r", "e", "c", "o", "r", "d", "s", " ", "i", "n", " ",
       "c", "l", "e", "a", "n", "e", "d", " ", "f", "i", "l", "e", ":", " ">>

MsgBackup ==
    <<"B", "a", "c", "k", "u", "p", " ", "c", "r", "e", "a", "t", "e", "d", ":", " ">>

\* The error text of the scenario: 54 characters.
TimeoutText ==
    <<"t", "i", "m", "e", "o", "u", "t", " ", "a", "f", "t", "e", "r", " ", "3", "0", "s",
       " ", "w", "h", "i", "l", "e", " ", "f", "e", "t", "c", "h", "i", "n", "g", " ", "p",
       "a", "g", "e", " ", "d", "e", "t", "a", "i", "l", "s", " ", "f", "o", "r", " ", "i",
       "t", "e", "m">>

\* The scenario's per-error line after the bullet, with the error text cut
\* after "for ".
ScenarioLineClaimed ==
    <<"A", "2", ":", " ", "t", "i", "m", "e", "o", "u", "t", " ", "a", "f", "t", "e", "r",
       " ", "3", "0", "s", " ", "w", "h", "i", "l", "e", " ", "f", "e", "t", "c", "h", "i",
       "n", "g", " ", "p", "a", "g", "e", " ", "d", "e", "t", "a", "i", "l", "s", " ", "f",
       "o", "r", " ", ".", ".", ".">>

\* The scenario's per-error line after the bullet, with the whole error text.
ScenarioLinePrinted ==
    <<"A", "2", ":", " ", "t", "i", "m", "e", "o", "u", "t", " ", "a", "f", "t", "e", "r",
       " ", "3", "0", "s", " ", "w", "h", "i", "l", "e", " ", "f", "e", "t", "c", "h", "i",
       "n", "g", " ", "p", "a", "g", "e", " ", "d", "e", "t", "a", "i", "l", "s", " ", "f",
       "o", "r", " ", "i", "t", "e", "m", ".", ".", ".">>

\* str(None)
NoneText ==
    <<"N", "o", "n", "e">>

----------------------------------------------------------------------------
(* JSON values, as json.load builds them and json.dump reads them. *)

Value(t, s, n, items) == [t |-> t, s |-> s, n |-> n, items |-> items]

Item(k, val) == [k |-> k, val |-> val]

JStr(s) == Value("str", s, 0, <<>>)

JNum(n) == Value("num", <<>>, n, <<>>)

JNull == Value("null", <<>>, 0, <<>>)

JArr(xs) == Value("arr", <<>>, 0, [i \in 1..Len(xs) |-> Item(<<>>, xs[i])])

\* A dict: its items in insertion order, no key twice.
JObj(items) == Value("obj", <<>>, 0, items)

\* The elements of a list.
Elems(x) == [i \in 1..Len(x.items) |-> x.items[i].val]

\* The value of a variable before its assignment.
Unset == Value("unset", <<>>, 0, <<>>)

----------------------------------------------------------------------------
(* Files and the text json.dump writes with ensure_ascii=False, indent=4.  *)
(* A token is a bracket, a separator, a line break with the indentation    *)
(* that follows it, or a scalar; a string token holds the string's         *)
(* characters as they are, non-ASCII ones included.                        *)

File(text) == [exists |-> TRUE, text |-> text]

Absent == [exists |-> FALSE, text |-> <<>>]

P(s) == Value("punct", <<s>>, 0, <<>>)

NL(level) == Value("nl", <<>>, level * Indent, <<>>)

RECURSIVE Dump(_, _)
RECURSIVE DumpElems(_, _, _)
RECURSIVE DumpItems(_, _, _)

\* The elements xs[i..] of a list, one per line, separated by commas.
DumpElems(xs, i, level) ==
    IF i > Len(xs) THEN <<>>
    ELSE <<NL(level)>> \o Dump(xs[i], level)
         \o (IF i < Len(xs) THEN <<P(",")>> ELSE <<>>)
         \o DumpElems(xs, i + 1, level)

\* The items items[i..] of a dict, one "key": value per line.
DumpItems(items, i, level) ==
    IF i > Len(items) THEN <<>>
    ELSE <<NL(level), JStr(items[i].k), P(":")>> \o Dump(items[i].val, level)
         \o (IF i < Len(items) THEN <<P(",")>> ELSE <<>>)
         \o DumpItems(items, i + 1, level)

\* json.dump(value, f, ensure_ascii=False, indent=4), at nesting depth level.
Dump(value, level) ==
    CASE value.t = "arr" ->
           IF value.items = <<>> THEN <<P("[]")>>
           ELSE <<P("[")>> \o DumpElems(Elems(value), 1, level + 1)
                \o <<NL(level), P("]")>>
      [] value.t = "obj" ->
           IF value.items = <<>> THEN <<P("{}")>>
           ELSE <<P("{")>> \o DumpItems(value.items, 1, level + 1)
                \o <<NL(level), P("}")>>
      [] OTHER -> <<value>>

\* What a write that fails part-way (the disk fills up) leaves of text: nothing,
\* or the text up to the start of one of its outermost lines.
PartialTexts(text) ==
    {SubSeq(text, 1, n) : n \in {m \in 0..(Len(text) - 1) :
                                   m = 0 \/ text[m + 1] = NL(1)}}

----------------------------------------------------------------------------
(* The inputs of the model. *)

\* An error text one character longer than the slice error[:80] keeps.
LongText == [i \in 1..(SliceEnd + 1) |-> IF i <= SliceEnd THEN "x" ELSE "y"]

RecA1 == JObj(<<Item(KeyAsin, JStr(<<"A", "1">>)), Item(KeyTitle, JStr(<<"x">>))>>)

RecA2 == JObj(<<Item(KeyAsin, JStr(<<"A", "2">>)), Item(KeyError, JStr(TimeoutText))>>)

\* No asin, and an error text longer than the slice.
RecLong == JObj(<<Item(KeyError, JStr(LongText))>>)

\* An error key whose value is the empty string.
RecEmpty == JObj(<<Item(KeyAsin, JStr(<<"A", "4">>)), Item(KeyError, JStr(<<>>))>>)

\* An error key whose value is null.
RecNull == JObj(<<Item(KeyAsin, JStr(<<"A", "3">>)), Item(KeyError, JNull)>>)

\* No error key, though a value is the word error; no asin either.
RecTitle == JObj(<<Item(KeyTitle, JStr(KeyError))>>)

Records == {RecA1, RecA2, RecLong, RecEmpty, RecNull, RecTitle}

\* The arrays of Records of at most MaxLen elements.
Datasets == UNION {[1..n -> Records] : n \in 0..MaxLen}

\* JSON values that are not arrays of objects.
OtherValues ==
    {RecA1, RecA2, JStr(<<"a", "b">>), JNum(7), JNull, JArr(<<JNum(7)>>)}

InputValues == {JArr(d) : d \in Datasets} \cup OtherValues

\* A text that is not JSON: an array cut short.
BrokenText == <<P("[")>>

InputFiles ==
    {Absent, File(BrokenText)} \cup {File(Dump(value, 0)) : value \in InputValues}

----------------------------------------------------------------------------
(* The Python operations the script applies to what it loaded.  The fields *)
(* of the model's records are strings, numbers and null.                   *)

NoExc == "none"

Min(a, b) == IF a < b THEN a ELSE b

\* json.load(f) of open(input_file): the value whose text the file holds.
LoadResult(file) ==
    IF ~file.exists THEN [exc |-> "FileNotFoundError", value |-> Unset]
    ELSE IF \E value \in InputValues : Dump(value, 0) = file.text
         THEN [exc |-> NoExc,
               value |-> CHOOSE value \in InputValues : Dump(value, 0) = file.text]
         ELSE [exc |-> "JSONDecodeError", value |-> Unset]

\* len(x): defined for lists, dicts and strings.
PyLen(x) ==
    CASE x.t \in {"arr", "obj"} -> [ok |-> TRUE, n |-> Len(x.items)]
      [] x.t = "str" -> [ok |-> TRUE, n |-> Len(x.s)]
      [] OTHER -> [ok |-> FALSE, n |-> 0]

\* for record in x: a list yields its elements, a dict its keys, a string
\* its characters.
PyIter(x) ==
    CASE x.t = "arr" -> Elems(x)
      [] x.t = "obj" -> [i \in 1..Len(x.items) |-> JStr(x.items[i].k)]
      [] x.t = "str" -> [i \in 1..Len(x.s) |-> JStr(<<x.s[i]>>)]

HasKey(items, k) == \E i \in 1..Len(items) : items[i].k = k

IsSubstring(s, text) ==
    \E i \in 0..(Len(text) - Len(s)) : SubSeq(text, i + 1, i + Len(s)) = s

\* PyIn as a truthiness test would have it (if record.get('error')): an error
\* that is None or empty does not count.
PyInTruthy(k, x) ==
    IF x.t # "obj" THEN [ok |-> FALSE, b |-> FALSE]
    ELSE [ok |-> TRUE,
          b |-> \E i \in 1..Len(x.items) :
                    /\ x.items[i].k = k
                    /\ x.items[i].val.t # "null"
                    /\ x.items[i].val # JStr(<<>>)]

\* k in x, for a string k: a key of a dict, a substring of a string, an
\* element of a list; a TypeError for a number or None.
PyIn(k, x) ==
    CASE x.t = "obj" -> [ok |-> TRUE, b |-> HasKey(x.items, k)]
      [] x.t = "str" -> [ok |-> TRUE, b |-> IsSubstring(k, x.s)]
      [] x.t = "arr" ->
           [ok |-> TRUE, b |-> \E i \in 1..Len(x.items) : x.items[i].val = JStr(k)]
      [] OTHER -> [ok |-> FALSE, b |-> FALSE]

\* x.get(k, default): only a dict has the method.
PyGet(x, k, default) ==
    IF x.t # "obj" THEN [ok |-> FALSE, val |-> default]
    ELSE IF HasKey(x.items, k)
         THEN [ok |-> TRUE,
               val |-> x.items[CHOOSE i \in 1..Len(x.items) : x.items[i].k = k].val]
         ELSE [ok |-> TRUE, val |-> default]

\* PySlice with the slice ending 30 characters early.
PySliceShort(x, n) ==
    IF x.t = "str"
    THEN [ok |-> TRUE, val |-> JStr(SubSeq(x.s, 1, Min(n - 30, Len(x.s))))]
    ELSE [ok |-> FALSE, val |-> x]

\* x[:n]: a string or a list has slices; a number, None or a dict raises.
PySlice(x, n) ==
    CASE x.t = "str" -> [ok |-> TRUE, val |-> JStr(SubSeq(x.s, 1, Min(n, Len(x.s))))]
      [] x.t = "arr" ->
           [ok |-> TRUE, val |-> JArr(SubSeq(Elems(x), 1, Min(n, Len(x.items))))]
      [] OTHER -> [ok |-> FALSE, val |-> x]

RECURSIVE Digits(_)
\* str(n) for an integer n >= 0.
Digits(n) ==
    LET d == <<"0", "1", "2", "3", "4", "5", "6", "7", "8", "9">>
    IN  IF n < 10 THEN <<d[n + 1]>> ELSE Digits(n \div 10) \o <<d[(n % 10) + 1]>>

\* How an f-string shows a string, None or a number.
PyStr(x) ==
    CASE x.t = "str" -> x.s
      [] x.t = "null" -> NoneText
      [] x.t = "num" -> Digits(x.n)

RECURSIVE PartitionLoopPrepend(_, _, _, _)
\* PartitionLoop with insert(0, record) for append(record).
PartitionLoopPrepend(xs, i, valid, errored) ==
    IF i > Len(xs) THEN [exc |-> NoExc, valid |-> valid, errored |-> errored]
    ELSE LET r == PyIn(KeyError, xs[i])
         IN  IF ~r.ok THEN [exc |-> "TypeError", valid |-> valid, errored |-> errored]
             ELSE IF r.b
                  THEN PartitionLoopPrepend(xs, i + 1, valid, <<xs[i]>> \o errored)
                  ELSE PartitionLoopPrepend(xs, i + 1, <<xs[i]>> \o valid, errored)

RECURSIVE PartitionLoop(_, _, _, _)
\* The loop over records from its i-th element on: a record with the key
\* error is appended to error_records, any other to valid_records.
PartitionLoop(xs, i, valid, errored) ==
    IF i > Len(xs) THEN [exc |-> NoExc, valid |-> valid, errored |-> errored]
    ELSE LET r == PyIn(KeyError, xs[i])
         IN  IF ~r.ok THEN [exc |-> "TypeError", valid |-> valid, errored |-> errored]
             ELSE IF r.b THEN PartitionLoop(xs, i + 1, valid, Append(errored, xs[i]))
             ELSE PartitionLoop(xs, i + 1, Append(valid, xs[i]), errored)

\* The body of the loop over error_records: the line it prints for record, or
\* the exception it raises.
ErrorLine(record) ==
    LET asin == PyGet(record, KeyAsin, JStr(Unknown))
        error == PyGet(record, KeyError, JStr(UnknownError))
        shown == PySlice(error.val, SliceEnd)
    IN  IF ~asin.ok THEN [exc |-> "AttributeError", line |-> <<>>]
        ELSE IF ~shown.ok THEN [exc |-> "TypeError", line |-> <<>>]
        ELSE [exc |-> NoExc,
              line |-> Bullet \o PyStr(asin.val) \o ColonSpace
                       \o PyStr(shown.val) \o Ellipsis]

RECURSIVE ReportLoop(_, _, _)
\* The loop over error_records from its i-th element on, out being what has
\* been printed: it stops at the first record whose line raises.
ReportLoop(errs, i, out) ==
    IF i > Len(errs) THEN [exc |-> NoExc, out |-> out]
    ELSE LET r == ErrorLine(errs[i])
         IN  IF r.exc # NoExc THEN [exc |-> r.exc, out |-> out]
             ELSE ReportLoop(errs, i + 1, Append(out, r.line))

----------------------------------------------------------------------------
(* The script, statement by statement.  An exception is never caught: it   *)
(* ends the run where it is raised.                                        *)

\* Running if exceptions were caught and the script went on.
RunningCaught == pc # "done"

\* The run has neither ended nor raised.
Running == exc = NoExc /\ pc # "done"

\* The run is over: it completed, or an exception ended it.
Terminated == exc # NoExc \/ pc = "done"

TypeOK ==
    /\ pc \in {"print_loading", "load", "print_total", "partition",
               "print_statistics", "report", "save", "backup", "done"}
    /\ exc \in {NoExc, "FileNotFoundError", "JSONDecodeError", "TypeError",
                "AttributeError", "OSError"}
    /\ in_file.exists \in BOOLEAN /\ out_file.exists \in BOOLEAN
    /\ bak_file.exists \in BOOLEAN
    /\ runs \in 1..MaxRuns

\* What a run starts from, whatever is on the disk.
StartOfRun ==
    /\ pc = "print_loading"
    /\ exc = NoExc
    /\ records = Unset
    /\ valid_records = <<>>
    /\ error_records = <<>>
    /\ console = <<>>
    /\ out_before = out_file
    /\ bak_before = bak_file

\* print(f" Loading {input_file}...")
PrintLoading ==
    /\ Running /\ pc = "print_loading"
    /\ console' = Append(console, MsgLoading \o input_file \o Ellipsis)
    /\ pc' = "load"
    /\ UNCHANGED <<in_file, out_file, bak_file, exc, records, valid_records,
                   error_records, out_before, bak_before, last_run, runs>>

\* with open(input_file, 'r', encoding='utf-8') as f: records = json.load(f)
Load ==
    /\ Running /\ pc = "load"
    /\ LET r == LoadResult(in_file)
       IN  /\ exc' = r.exc
           /\ records' = r.value
           /\ pc' = IF r.exc = NoExc THEN "print_total" ELSE pc
    /\ UNCHANGED <<in_file, out_file, bak_file, valid_records, error_records,
                   console, out_before, bak_before, last_run, runs>>

\* print(f"Total records before cleaning: {len(records)}")
PrintTotal ==
    /\ Running /\ pc = "print_total"
    /\ LET r == PyLen(records)
       IN  IF r.ok
           THEN /\ console' = Append(console, MsgTotal \o Digits(r.n))
                /\ pc' = "partition"
                /\ exc' = exc
           ELSE /\ exc' = "TypeError"
                /\ UNCHANGED <<console, pc>>
    /\ UNCHANGED <<in_file, out_file, bak_file, records, valid_records,
                   error_records, out_before, bak_before, last_run, runs>>

\* valid_records = []; error_records = []; for record in records: ...
Partition ==
    /\ Running /\ pc = "partition"
    /\ LET r == PartitionLoop(PyIter(records), 1, <<>>, <<>>)
       IN  /\ valid_records' = r.valid
           /\ error_records' = r.errored
           /\ exc' = r.exc
           /\ pc' = IF r.exc = NoExc THEN "print_statistics" ELSE pc
    /\ UNCHANGED <<in_file, out_file, bak_file, records, console, out_before,
                   bak_before, last_run, runs>>

\* The three prints under "# Print statistics".
PrintStatistics ==
    /\ Running /\ pc = "print_statistics"
    /\ console' = console \o <<MsgStatistics,
                               MsgValid \o Digits(Len(valid_records)),
                               MsgErrors \o Digits(Len(error_records))>>
    /\ pc' = "report"
    /\ UNCHANGED <<in_file, out_file, bak_file, exc, records, valid_records,
                   error_records, out_before, bak_before, last_run, runs>>

\* if error_records: the header, then one line per record of error_records.
Report ==
    /\ Running /\ pc = "report"
    /\ IF error_records = <<>>
       THEN /\ pc' = "save"
            /\ UNCHANGED <<console, exc>>
       ELSE LET r == ReportLoop(error_records, 1, Append(console, MsgAsins))
            IN  /\ console' = r.out
                /\ exc' = r.exc
                /\ pc' = IF r.exc = NoExc THEN "save" ELSE pc
    /\ UNCHANGED <<in_file, out_file, bak_file, records, valid_records,
                   error_records, out_before, bak_before, last_run, runs>>

\* CleanedText with records for valid_records.
CleanedTextUnfiltered == Dump(records, 0)

\* The text the script writes to output_file.
CleanedText == Dump(JArr(valid_records), 0)

\* The text the script writes to backup_file.
BackupText == Dump(records, 0)

\* print, open(output_file, 'w'), json.dump(valid_records, ...), two prints.
\* open can fail, leaving the file as it was; json.dump can fail after open
\* has emptied the file, leaving part of the text.
SaveCleaned ==
    /\ Running /\ pc = "save"
    /\ \/ /\ out_file' = File(CleanedText)
          /\ console' = console \o <<MsgSaving \o output_file \o Ellipsis, MsgSaved,
                                     MsgCleanedTotal \o Digits(Len(valid_records))>>
          /\ pc' = "backup"
          /\ exc' = exc
       \/ /\ out_file' = out_file
          /\ console' = Append(console, MsgSaving \o output_file \o Ellipsis)
          /\ exc' = "OSError"
          /\ pc' = pc
       \/ /\ \E text \in PartialTexts(CleanedText) : out_file' = File(text)
          /\ console' = Append(console, MsgSaving \o output_file \o Ellipsis)
          /\ exc' = "OSError"
          /\ pc' = pc
    /\ UNCHANGED <<in_file, bak_file, records, valid_records, error_records,
                   out_before, bak_before, last_run, runs>>

\* if not os.path.exists(backup_file): open(backup_file, 'w'),
\* json.dump(records, ...), print.  The writes can fail as in SaveCleaned.
Backup ==
    /\ Running /\ pc = "backup"
    /\ \/ /\ bak_file.exists
          /\ pc' = "done"
          /\ UNCHANGED <<bak_file, console, exc>>
       \/ /\ ~bak_file.exists
          /\ bak_file' = File(BackupText)
          /\ console' = Append(console, MsgBackup \o backup_file)
          /\ pc' = "done"
          /\ exc' = exc
       \/ /\ ~bak_file.exists
          /\ exc' = "OSError"
          /\ UNCHANGED <<bak_file, console, pc>>
       \/ /\ ~bak_file.exists
          /\ \E text \in PartialTexts(BackupText) : bak_file' = File(text)
          /\ exc' = "OSError"
          /\ UNCHANGED <<console, pc>>
    /\ UNCHANGED <<in_file, out_file, records, valid_records, error_records,
                   out_before, bak_before, last_run, runs>>

\* One statement of the script.
Step ==
    \/ PrintLoading
    \/ Load
    \/ PrintTotal
    \/ Partition
    \/ PrintStatistics
    \/ Report
    \/ SaveCleaned
    \/ Backup

----------------------------------------------------------------------------
(* One run, from any input file and from a disk an earlier run or the      *)
(* operator may have left.                                                 *)

\* output_file before the run: absent, or left by an earlier run.
OutStarts == {Absent, File(Dump(JArr(<<RecA1, RecA1>>), 0))}

\* backup_file before the run: absent, a complete backup, or one cut short.
BakStarts == {Absent, File(Dump(JArr(<<RecA2>>), 0)), File(BrokenText)}

\* Before any run there is none to repeat.
NoRun == [input |-> Absent, completed |-> FALSE]

Init ==
    /\ in_file \in InputFiles
    /\ out_file \in OutStarts
    /\ bak_file \in BakStarts
    /\ StartOfRun
    /\ last_run = NoRun
    /\ runs = 1

Next == Step

Spec == Init /\ [][Next]_vars

----------------------------------------------------------------------------
(* Runs one after the other on one disk that starts without output_file    *)
(* and backup_file; between two runs the operator may replace input_file.  *)

RunInputFiles ==
    {Absent,
     File(Dump(JArr(<<>>), 0)),
     File(Dump(JArr(<<RecA1>>), 0)),
     File(Dump(JArr(<<RecA1, RecA2>>), 0)),
     File(Dump(JArr(<<RecNull, RecA1>>), 0)),
     File(Dump(JArr(<<RecLong, RecTitle>>), 0)),
     File(Dump(RecA1, 0)),
     File(Dump(JNull, 0))}

InitRuns ==
    /\ in_file \in RunInputFiles
    /\ out_file = Absent
    /\ bak_file = Absent
    /\ StartOfRun
    /\ last_run = NoRun
    /\ runs = 1

\* The operator starts the script again once the run has ended.
NewRun ==
    /\ Terminated
    /\ runs < MaxRuns
    /\ runs' = runs + 1
    /\ in_file' \in RunInputFiles
    /\ last_run' = [input |-> in_file, completed |-> pc = "done"]
    /\ pc' = "print_loading"
    /\ exc' = NoExc
    /\ records' = Unset
    /\ valid_records' = <<>>
    /\ error_records' = <<>>
    /\ console' = <<>>
    /\ out_before' = out_file
    /\ bak_before' = bak_file
    /\ UNCHANGED <<out_file, bak_file>>

NextRuns == Step \/ NewRun

SpecRuns == InitRuns /\ [][NextRuns]_vars

----------------------------------------------------------------------------
(* The properties checked. *)

\* The loop over records has run to its end.
Partitioned == pc \in {"print_statistics", "report", "save", "backup", "done"}

\* The report has run to its end.
Reported == pc \in {"save", "backup", "done"}

\* The run loaded a Dataset: an array whose elements are all objects.
LoadedDataset ==
    records.t = "arr" /\ \A i \in 1..Len(records.items) : Elems(records)[i].t = "obj"

\* A Record with a key named error.
IsErrored(r) == \E j \in 1..Len(r.items) : r.items[j].k = KeyError

IsValid(r) == ~IsErrored(r)

Occurs(r, xs) == \E i \in 1..Len(xs) : xs[i] = r

RECURSIVE Pick(_, _, _)
\* The elements of D at the positions of S that are >= i, in D's order.
Pick(D, S, i) ==
    IF i > Len(D) THEN <<>>
    ELSE (IF i \in S THEN <<D[i]>> ELSE <<>>) \o Pick(D, S, i + 1)

\* C1: once the partition loop has run over a Dataset D, valid_records and
\* error_records are a stable partition of D: their lengths add up to D's, and
\* the positions of D split into two sets such that error_records is D at the
\* positions of one and valid_records is D at the positions of the other, both
\* in D's order.
C1_StablePartition ==
    (Partitioned /\ LoadedDataset) =>
        LET D == Elems(records)
            All == 1..Len(D)
        IN  /\ Len(valid_records) + Len(error_records) = Len(D)
            /\ \E S \in SUBSET All :
                  /\ error_records = Pick(D, S, 1)
                  /\ valid_records = Pick(D, All \ S, 1)

\* C1's case: a Dataset of two different errored Records has been partitioned.
C1_Witness ==
    /\ Partitioned /\ LoadedDataset
    /\ Len(error_records) = 2
    /\ error_records[1] # error_records[2]

\* C2: once the partition loop has run over a Dataset, each of its Records is
\* in error_records if and only if it has a key named error, whatever the value
\* under the key, and in valid_records if and only if it has no such key.
C2_ErroredIffKey ==
    (Partitioned /\ LoadedDataset) =>
        \A i \in 1..Len(records.items) :
            LET r == Elems(records)[i]
            IN  /\ Occurs(r, error_records) <=> IsErrored(r)
                /\ Occurs(r, valid_records) <=> IsValid(r)

\* C2's case: a Record whose error is null or the empty string was put in
\* error_records, and one that only has the word error as a value in
\* valid_records.
C2_Witness ==
    /\ Partitioned /\ LoadedDataset
    /\ Occurs(RecEmpty, error_records) \/ Occurs(RecNull, error_records)
    /\ Occurs(RecTitle, valid_records)

\* C3 (as claimed): when a run over a Dataset has ended and no write failed,
\* backup_file is what it was before the run if it existed then, and the text
\* of the whole loaded Dataset otherwise; and output_file holds the text of the
\* run's valid_records.
C3_BackupWrittenOnce ==
    (Terminated /\ LoadedDataset /\ exc # "OSError") =>
        /\ bak_file = (IF bak_before.exists THEN bak_before
                       ELSE File(Dump(records, 0)))
        /\ out_file = File(Dump(JArr(SelectSeq(Elems(records), IsValid)), 0))

\* Every error value of the loaded Dataset is a string.
StringErrors ==
    \A i \in 1..Len(records.items) :
        LET r == Elems(records)[i]
        IN  IsErrored(r) =>
                r.items[CHOOSE j \in 1..Len(r.items) : r.items[j].k = KeyError].val.t = "str"

\* What holds of C3: the claim's statement for the Datasets whose error values
\* are all strings, the ones whose report does not raise.
C3_HoldsForStringErrors == StringErrors => C3_BackupWrittenOnce

\* C4: after a run over a Dataset that completes, output_file holds the text of
\* the Dataset's Records without an error key, in order, whatever it held
\* before; a completed run on the input of the completed run before it leaves
\* output_file as that run left it; and an empty Dataset leaves the text [].
C4_CleanedIsValid ==
    (pc = "done" /\ LoadedDataset) =>
        /\ out_file = File(Dump(JArr(SelectSeq(Elems(records), IsValid)), 0))
        /\ (last_run.completed /\ last_run.input = in_file) => out_file = out_before
        /\ records.items = <<>> => out_file.text = <<P("[]")>>

\* C4's case: a second completed run on the same input, which holds a Record
\* with an error key and one without.
C4_Witness ==
    /\ pc = "done" /\ LoadedDataset
    /\ last_run.completed /\ last_run.input = in_file
    /\ error_records # <<>> /\ valid_records # <<>>
    /\ out_before.exists

\* C5 (as claimed): when input_file holds JSON that is not an array, load
\* fails: the run ends at load with an exception, and output_file and
\* backup_file stay as they were.
C5_NonArrayFailsAtLoad ==
    LET r == LoadResult(in_file)
    IN  (r.exc = NoExc /\ r.value.t # "arr") =>
            /\ pc \in {"print_loading", "load"}
            /\ Terminated => exc # NoExc
            /\ out_file = out_before /\ bak_file = bak_before

\* C6 (as claimed): a run over a Dataset, whatever the values of its Records,
\* ends only by completing, unless a write fails.
C6_DatasetRunCompletes ==
    LoadedDataset => exc \in {NoExc, "OSError"}

\* What holds of C6: a run over a Dataset whose error values are all strings
\* ends only by completing, unless a write fails.
C6_HoldsForStringErrors == (LoadedDataset /\ StringErrors) => C6_DatasetRunCompletes

\* C7: an exception ends the run where it is raised: no statement of the script
\* can run after it.  When a statement before the save raises, output_file and
\* backup_file are as they were before the run; when the save raises,
\* backup_file is as it was and no backup is reported; when the backup raises,
\* output_file holds the text of valid_records that this run wrote.
C7_FailureEndsRun ==
    /\ exc # NoExc => ~ENABLED Step
    /\ (exc # NoExc /\ pc \in {"load", "print_total", "partition", "report"}) =>
           out_file = out_before /\ bak_file = bak_before
    /\ (exc # NoExc /\ pc = "save") =>
           bak_file = bak_before /\ ~Occurs(MsgBackup \o backup_file, console)
    /\ (exc # NoExc /\ pc = "backup") =>
           out_file = File(Dump(JArr(valid_records), 0))

\* C7's case: the backup failed after the save wrote a non-empty
\* valid_records over an older output_file.
C7_Witness ==
    /\ exc = "OSError" /\ pc = "backup"
    /\ valid_records # <<>>
    /\ out_before.exists /\ out_file # out_before

\* The value under the key k of a Record that has the key.
ValueOf(r, k) == r.items[CHOOSE j \in 1..Len(r.items) : r.items[j].k = k].val

\* The line the report is to print for an errored Record whose error is a
\* string: its asin or Unknown, and the first SliceEnd characters of the error.
ExpectedLine(r) ==
    LET asin == IF \E j \in 1..Len(r.items) : r.items[j].k = KeyAsin
                THEN ValueOf(r, KeyAsin).s ELSE Unknown
        error == ValueOf(r, KeyError).s
    IN  Bullet \o asin \o ColonSpace
        \o [i \in 1..Min(SliceEnd, Len(error)) |-> error[i]] \o Ellipsis

\* What the run prints before the report.
CountLines ==
    <<MsgLoading \o input_file \o Ellipsis,
      MsgTotal \o Digits(Len(valid_records) + Len(error_records)),
      MsgStatistics,
      MsgValid \o Digits(Len(valid_records)),
      MsgErrors \o Digits(Len(error_records))>>

\* The report over a Dataset is over: it ended, or it raised.
ReportOver ==
    LoadedDataset /\ ((pc = "save" /\ exc = NoExc) \/ (pc = "report" /\ exc # NoExc))

\* C8 (as claimed): when the report over a Dataset is over, the console holds
\* the counts, with total = valid + errored, and after them nothing when
\* error_records is empty, and otherwise the header and exactly one line per
\* Record of error_records, in order; the line of a Record whose error is a
\* string is its ExpectedLine.
C8_OneLinePerErrored ==
    ReportOver =>
        LET n == Len(error_records)
            c == Len(CountLines)
        IN  /\ Len(records.items) = Len(valid_records) + n
            /\ SubSeq(console, 1, c) = CountLines
            /\ Len(console) = IF n = 0 THEN c ELSE c + 1 + n
            /\ n > 0 => console[c + 1] = MsgAsins
            /\ \A i \in 1..n :
                   ValueOf(error_records[i], KeyError).t = "str"
                       => console[c + 1 + i] = ExpectedLine(error_records[i])

\* What holds of C8: the claim's statement for the Datasets whose error values
\* are all strings.
C8_HoldsForStringErrors == (LoadedDataset /\ StringErrors) => C8_OneLinePerErrored

\* The scenario's Dataset has been loaded and reported.
ScenarioReported == records = JArr(<<RecA1, RecA2>>) /\ Reported

\* What the scenario's run has on the console after the report, its last line
\* showing shown after the bullet.
ScenarioConsole(shown) ==
    <<MsgLoading \o input_file \o Ellipsis,
      MsgTotal \o <<"2">>,
      MsgStatistics,
      MsgValid \o <<"1">>,
      MsgErrors \o <<"1">>,
      MsgAsins,
      Bullet \o shown>>

\* C9 (as claimed): for the scenario's two Records, valid_records is the A1
\* Record, error_records the A2 Record, the counts printed are 1 and 1, and
\* the line printed for A2 shows the error text cut after "for ".
C9_ScenarioLineCut ==
    ScenarioReported =>
        /\ valid_records = <<RecA1>> /\ error_records = <<RecA2>>
        /\ SubSeq(console, 1, 7) = ScenarioConsole(ScenarioLineClaimed)

\* C9 (amended): the same, but the line printed for A2 shows the whole error
\* text, which is shorter than the slice: it ends with "item" and the ellipsis.
C9_ScenarioLineWhole ==
    ScenarioReported =>
        /\ valid_records = <<RecA1>> /\ error_records = <<RecA2>>
        /\ SubSeq(console, 1, 7) = ScenarioConsole(ScenarioLinePrinted)

\* C9's case: the scenario's run has printed its report.
C9_Witness == ScenarioReported /\ pc = "save" /\ Len(console) = 7

\* C10 (as claimed): a backup_file this script created holds the whole text of
\* the value loaded by the run that created it, so that no completed run
\* leaves a backup cut short.
C10_BackupIsComplete ==
    /\ (bak_file.exists /\ ~bak_before.exists) => bak_file.text = Dump(records, 0)
    /\ bak_file.exists => \E value \in InputValues : bak_file.text = Dump(value, 0)

====
